---- MODULE Spec2Model ----
(***************************************************************************)
(* Model of the SpecTcl REST data clients (src/main/data/client.py):       *)
(* SpecTclDataClient and its gate / apply variants.  A client object is    *)
(* the state; every public method is one action.  The remote service is    *)
(* the environment: each HTTP round trip draws its response from the set   *)
(* of bodies the service can send, so the remote listing may change        *)
(* between any two requests.                                               *)
(*                                                                         *)
(* Python values are tagged records ([t |-> "None"], [t |-> "table", ...]) *)
(* and a call's outcome is [kind |-> "return", val |-> v] or               *)
(* [kind |-> "raise", exc |-> e]; every operator that models a method      *)
(* also returns the trace of validation / request events it produced.      *)
(***************************************************************************)
EXTENDS Integers, Sequences, FiniteSets, TLC

\* ------------------------------------------------------------------ bounds
\* Longest parameter list a spectrum row declares (1 and 2 are supported).
MaxParams == 3

\* -------------------------------------------------------- program constants
DEFAULT_APP_NAME == "spectcl"
DEFAULT_BASE_URL == "http://127.0.0.1"
DEFAULT_PORT_NUMBER == 8000
DEFAULT_GROUP_NAME == "spectrum"

\* ------------------------------------------------------------ input domains
Groups == {"spectrum", "gate", "apply"}
Names == {"s1", "s2"}
BaseUrls == {DEFAULT_BASE_URL, "http://host2"}
Ports == {DEFAULT_PORT_NUMBER, DEFAULT_PORT_NUMBER + 1}
AppNames == {DEFAULT_APP_NAME, "other"}
ParamNames == <<"p", "q", "r">>
GateTypes == {"s", "b", "zz"}
GateNames == {"-TRUE-", "g1"}

\* ------------------------------------------------------------ python values
None == [t |-> "None"]
Bool(b) == [t |-> "bool", b |-> b]
Return(v) == [kind |-> "return", val |-> v]
Raise(e) == [kind |-> "raise", exc |-> e]
Raised(o, e) == o.kind = "raise" /\ o.exc = e
IsNone(o) == o.kind = "return" /\ o.val.t = "None"
Range(s) == {s[i] : i \in DOMAIN s}

\* ---------------------------------------------------- the service's bodies
\* A parameter list of length n: ParamNames read cyclically from an offset.
ParamList(off, n) == [i \in 1..n |-> ParamNames[((off + i - 1) % Len(ParamNames)) + 1]]
ParamLists == {ParamList(0, n) : n \in 0..MaxParams} \cup {ParamList(1, 1)}

\* One flat record of a listing, per group.
Payloads(g) ==
  CASE g = "spectrum" -> ParamLists
    [] g = "gate" -> GateTypes
    [] g = "apply" -> GateNames
ListRecord(g, n, v) ==
  CASE g = "spectrum" -> [name |-> n, parameters |-> v]
    [] g = "gate" -> [name |-> n, type |-> v]
    [] g = "apply" -> [spectrum |-> n, gate |-> v]
\* The record lists the service can answer 'list' with: names are unique.
RecordLists(g) ==
  UNION {{{ListRecord(g, n, f[n]) : n \in S} : f \in [S -> Payloads(g)]} : S \in SUBSET Names}

\* Channel samples {x, [y], v}; a response is a list of samples of one shape.
Sample1 == [x |-> 0, v |-> 1]
Sample2 == [x |-> 0, y |-> 0, v |-> 1]
ChannelLists == {<<>>, <<Sample1>>, <<Sample2>>}

\* HTTP response bodies: JSON text of a value, or text that is not JSON.
Json(v) == [body |-> "json", value |-> v]
Garbage == [body |-> "garbage"]
JList(items) == [t |-> "list", items |-> items]
JContents(ch) == [t |-> "dict", keys |-> {"channels"}, channels |-> ch]
JStatus(s) == [t |-> "dict", keys |-> {"status"}, status |-> s]
JEmpty == [t |-> "dict", keys |-> {}]
Responses(g, action) ==
  CASE action = "list" -> {Json(JList(l)) : l \in RecordLists(g)} \cup {Garbage}
    [] action = "contents" -> {Json(JContents(c)) : c \in ChannelLists} \cup {Json(JEmpty), Garbage}
    [] action = "apply" -> {Json(JStatus(s)) : s \in {"OK", "FAIL"}} \cup {Json(JEmpty), Garbage}

\* =================================================================== utils
\* Per-group, per-action whitelist of accepted parameter keys.
ACTION_PARAMS ==
  [spectrum |-> [list |-> [arg |-> {"filter", "update_cache"}],
                 contents |-> [arg |-> {"name"}]],
   gate |-> [list |-> [arg |-> {"pattern", "update_cache"}]],
   apply |-> [list |-> [arg |-> {"pattern", "update_cache"}],
              apply |-> [arg |-> {"spectrum", "gate"}]]]

\* Column renaming of the listings.
SPEC_NAME_MAP == [name |-> "Name", parameters |-> "Parameters"]
GATE_NAME_MAP == [name |-> "Name", type |-> "Type"]
\* Gate type code -> description (strict) and gate name -> description (lenient).
GATE_TYPE_MAP == [s |-> "slice", b |-> "band"]
GATE_APPLY_MAP == [x \in {"-TRUE-"} |-> "ungated"]

\* make_response(r): the body parsed as JSON.
make_response(r) ==
  IF r.body = "json" THEN Return(r.value) ELSE Raise("JSONDecodeError")

\* ================================================================== pandas
\* The column labels of a DataFrame built from records.
Keys(recs) == UNION {DOMAIN r : r \in recs}
RenameKey(map, k) == IF k \in DOMAIN map THEN map[k] ELSE k
RenameRecord(map, r) ==
  [k \in {RenameKey(map, c) : c \in DOMAIN r} |->
     r[CHOOSE c \in DOMAIN r : RenameKey(map, c) = k]]
DropKey(r, key) == [k \in DOMAIN r \ {key} |-> r[k]]
\* DataFrame.set_index(key): the rows keyed by the value of one column.
Table(rows) == [t |-> "table", rows |-> rows]
SetIndex(recs, key) ==
  Table([n \in {r[key] : r \in recs} |-> DropKey(CHOOSE r \in recs : r[key] = n, key)])
HasRow(tab, n) == n \in DOMAIN tab.rows

\* ================================================================== client
Uri(base_url, port, name, group) ==
  [base_url |-> base_url, port |-> port, name |-> name, group |-> group]
\* update_base_uri: f"{base_url}:{port}/{name}/{group}"
update_base_uri(base_url, port, name, group) == Uri(base_url, port, name, group)
\* url = self._base_uri + '/' + action
Url(base_uri, action) == [uri |-> base_uri, action |-> action]

EvValidate(action, ok) == [ev |-> "validate", action |-> action, ok |-> ok]
EvRequest(url, params, resp) ==
  [ev |-> "request", url |-> url, params |-> params, resp |-> resp]

validate_action(group, action, action_params) ==
  \A i \in DOMAIN action_params : i \in ACTION_PARAMS[group][action].arg

\* Mutant of get: the request is sent whatever the validation said.
get_unvalidated(group, base_uri, action, raw, action_params, resp) ==
  IF action \notin DOMAIN ACTION_PARAMS[group]
  THEN [out |-> Raise("KeyError"), trace |-> <<>>]
  ELSE [out |-> IF raw THEN Return([t |-> "response", resp |-> resp]) ELSE make_response(resp),
        trace |-> <<EvValidate(action, validate_action(group, action, action_params)),
                    EvRequest(Url(base_uri, action), action_params, resp)>>]

\* get(action, raw, **action_params); resp is the body the service answers with.
get(group, base_uri, action, raw, action_params, resp) ==
  IF action \notin DOMAIN ACTION_PARAMS[group]
  THEN [out |-> Raise("KeyError"), trace |-> <<>>]
  ELSE LET is_valid == validate_action(group, action, action_params)
           url == Url(base_uri, action)
       IN IF ~is_valid
          THEN [out |-> Return(None), trace |-> <<EvValidate(action, FALSE)>>]
          ELSE [out |-> IF raw THEN Return([t |-> "response", resp |-> resp])
                        ELSE make_response(resp),
                trace |-> <<EvValidate(action, TRUE), EvRequest(url, action_params, resp)>>]

\* What a method hands back: its outcome, the events it produced and the
\* _vlist_cache it leaves.
Result(out, trace, cache) == [out |-> out, trace |-> trace, cache |-> cache]

\* kws.get('update_cache', False)
UpdateCache(kws) == "update_cache" \in DOMAIN kws /\ kws["update_cache"]

\* Lines 128-130: from_records (None has no len()), rename, set_index('Name').
frame_spectrum(r) ==
  IF r.t # "list" THEN Raise("TypeError")
  ELSE IF "Name" \notin Keys({RenameRecord(SPEC_NAME_MAP, x) : x \in r.items})
       THEN Raise("KeyError")
  ELSE Return(SetIndex({RenameRecord(SPEC_NAME_MAP, x) : x \in r.items}, "Name"))

\* Mutant of store: every listing replaces the cache.
store_always(cache, kws, trace, df) ==
  IF df.kind = "raise" THEN Result(df, trace, cache) ELSE Result(df, trace, df.val)

\* Lines 131-133: the cache is replaced only under update_cache; df is returned.
store(cache, kws, trace, df) ==
  IF df.kind = "raise" THEN Result(df, trace, cache)
  ELSE Result(df, trace, IF UpdateCache(kws) THEN df.val ELSE cache)

\* Lines 128-133, given what get returned.
list_spectrum_of(cache, kws, g) ==
  IF g.out.kind = "raise" THEN Result(g.out, g.trace, cache)
  ELSE store(cache, kws, g.trace, frame_spectrum(g.out.val))

\* SpecTclDataClient.list(**kws)
list_spectrum(group, base_uri, cache, kws, resp) ==
  list_spectrum_of(cache, kws, get(group, base_uri, "list", FALSE, kws, resp))

AddKey(r, key, v) == [k \in DOMAIN r \cup {key} |-> IF k = key THEN v ELSE r[k]]

\* Lines 254-257: from_records, df['type'], the strict GATE_TYPE_MAP lookup,
\* rename, set_index('Name').
frame_gate(r) ==
  IF r.t # "list" THEN Raise("TypeError")
  ELSE IF "type" \notin Keys(r.items) THEN Raise("KeyError")
  ELSE IF \E x \in r.items : x.type \notin DOMAIN GATE_TYPE_MAP THEN Raise("KeyError")
  ELSE Return(SetIndex({RenameRecord(GATE_NAME_MAP, AddKey(x, "Desc", GATE_TYPE_MAP[x.type])) :
                          x \in r.items}, "Name"))

list_gate_of(cache, kws, g) ==
  IF g.out.kind = "raise" THEN Result(g.out, g.trace, cache)
  ELSE store(cache, kws, g.trace, frame_gate(g.out.val))

\* SpecTclGateClient.list(**kws)
list_gate(group, base_uri, cache, kws, resp) ==
  list_gate_of(cache, kws, get(group, base_uri, "list", FALSE, kws, resp))

\* GATE_APPLY_MAP.get(i, i)
ApplyDesc(i) == IF i \in DOMAIN GATE_APPLY_MAP THEN GATE_APPLY_MAP[i] ELSE i

\* Lines 291-294: from_records, df['gate'], the lenient lookup, set_index('spectrum').
frame_apply(r) ==
  IF r.t # "list" THEN Raise("TypeError")
  ELSE IF "gate" \notin Keys(r.items) THEN Raise("KeyError")
  ELSE Return(SetIndex({AddKey(x, "desc", ApplyDesc(x.gate)) : x \in r.items}, "spectrum"))

\* df.loc[df['gate'] != '-TRUE-']
Gated(df) ==
  Table([n \in {m \in DOMAIN df.rows : df.rows[m].gate # "-TRUE-"} |-> df.rows[n]])

\* Mutant of store_apply: only_gated is ignored, the whole df is returned.
store_apply_unfiltered(cache, only_gated, kws, trace, df) ==
  IF df.kind = "raise" THEN Result(df, trace, cache)
  ELSE Result(df, trace, IF UpdateCache(kws) THEN df.val ELSE cache)

\* Lines 295-300: the whole df is cached under update_cache; the gated rows
\* or the whole df are returned.
store_apply(cache, only_gated, kws, trace, df) ==
  IF df.kind = "raise" THEN Result(df, trace, cache)
  ELSE Result(IF only_gated THEN Return(Gated(df.val)) ELSE df, trace,
              IF UpdateCache(kws) THEN df.val ELSE cache)

list_apply_of(cache, only_gated, kws, g) ==
  IF g.out.kind = "raise" THEN Result(g.out, g.trace, cache)
  ELSE store_apply(cache, only_gated, kws, g.trace, frame_apply(g.out.val))

\* SpecTclApplyClient.list(only_gated, **kws)
list_apply(group, base_uri, cache, only_gated, kws, resp) ==
  list_apply_of(cache, only_gated, kws, get(group, base_uri, "list", FALSE, kws, resp))

\* self.list(...): the method of the client's class; only the apply variant
\* takes only_gated.
list(group, base_uri, cache, only_gated, kws, resp) ==
  CASE group = "spectrum" -> list_spectrum(group, base_uri, cache, kws, resp)
    [] group = "gate" -> list_gate(group, base_uri, cache, kws, resp)
    [] group = "apply" -> list_apply(group, base_uri, cache, only_gated, kws, resp)

\* pd.DataFrame.from_dict(channels): one column per sample key, in key order;
\* the samples themselves are kept as a row count.
ColumnOrder == <<"x", "y", "v">>
InKeys(ch, c) == c \in Keys(Range(ch))
from_dict(ch) ==
  [t |-> "frame", columns |-> SelectSeq(ColumnOrder, LAMBDA c : InKeys(ch, c)),
   nrows |-> Len(ch)]
\* df.rename(columns=map)
rename(df, map) ==
  [df EXCEPT !.columns = [i \in DOMAIN df.columns |-> RenameKey(map, df.columns[i])]]

\* Lines 164-167: the renaming by dimensionality.
RenameMap1(params) == [c \in {"x", "v"} |-> IF c = "x" THEN params[1] ELSE "count"]
RenameMap2(params) ==
  [c \in {"x", "y", "v"} |-> IF c = "x" THEN params[1] ELSE IF c = "y" THEN params[2] ELSE "count"]
\* Mutant of rename_contents: the two-parameter branch is missing.
rename_contents_1d(df, params) ==
  IF Len(params) \in {1, 2} THEN rename(df, RenameMap1(params)) ELSE df

rename_contents(df, params) ==
  IF Len(params) = 1 THEN rename(df, RenameMap1(params))
  ELSE IF Len(params) = 2 THEN rename(df, RenameMap2(params))
  ELSE df

NoKws == [k \in {} |-> TRUE]
\* The keyword arguments name=..., and spectrum=..., gate=...
NameKw(n) == [k \in {"name"} |-> n]
ApplyKw(spectrum, gate) ==
  [k \in {"spectrum", "gate"} |-> IF k = "spectrum" THEN spectrum ELSE gate]
Merge(f, g) == [k \in DOMAIN f \cup DOMAIN g |-> IF k \in DOMAIN f THEN f[k] ELSE g[k]]

\* Mutant of contents_lookup: the row is looked up only when it is needed
\* for the renaming, so a raw read of an unknown name returns its table.
contents_lookup_lazy(cache, name, as_raw, df, trace) ==
  IF as_raw THEN Result(Return(df), trace, cache)
  ELSE IF ~HasRow(cache, name) THEN Result(Raise("KeyError"), trace, cache)
  ELSE IF "Parameters" \notin DOMAIN cache.rows[name]
       THEN Result(Raise("AttributeError"), trace, cache)
  ELSE Result(Return(rename_contents(df, cache.rows[name].Parameters)), trace, cache)

\* Lines 161-168: the row of name in the cache, then the renaming.
contents_lookup(cache, name, as_raw, df, trace) ==
  IF ~HasRow(cache, name) THEN Result(Raise("KeyError"), trace, cache)
  ELSE IF as_raw THEN Result(Return(df), trace, cache)
  ELSE IF "Parameters" \notin DOMAIN cache.rows[name]
       THEN Result(Raise("AttributeError"), trace, cache)
  ELSE Result(Return(rename_contents(df, cache.rows[name].Parameters)), trace, cache)

\* Lines 159-160, given what self.list() handed back.
contents_refreshed(name, as_raw, df, trace, l) ==
  IF l.out.kind = "raise" THEN Result(l.out, trace \o l.trace, l.cache)
  ELSE contents_lookup(l.cache, name, as_raw, df, trace \o l.trace)

\* Lines 153-168, given what get returned; fresh answers the list request.
contents_of(group, base_uri, cache, name, as_raw, refresh_cache, fresh, g) ==
  IF Raised(g.out, "JSONDecodeError") THEN Result(Return(None), g.trace, cache)
  ELSE IF g.out.kind = "raise" THEN Result(g.out, g.trace, cache)
  ELSE IF g.out.val.t = "None" THEN Result(Raise("TypeError"), g.trace, cache)
  ELSE IF "channels" \notin g.out.val.keys THEN Result(Raise("KeyError"), g.trace, cache)
  ELSE IF refresh_cache
       THEN contents_refreshed(name, as_raw, from_dict(g.out.val.channels), g.trace,
                               list(group, base_uri, cache, TRUE, NoKws, fresh))
  ELSE contents_lookup(cache, name, as_raw, from_dict(g.out.val.channels), g.trace)

\* contents(name, as_raw, refresh_cache, **kws); resp answers the contents
\* request and fresh the list request of the refresh.
contents(group, base_uri, cache, name, as_raw, refresh_cache, kws, resp, fresh) ==
  contents_of(group, base_uri, cache, name, as_raw, refresh_cache, fresh,
              get(group, base_uri, "contents", FALSE, Merge(NameKw(name), kws), resp))

\* Spectrum(name, conf, data, ...): the reconstructed histogram object.
Spectrum(name, conf, data) == [t |-> "Spectrum", name |-> name, conf |-> conf, data |-> data]

\* Lines 194-195, given what contents handed back.
get_spectrum_of(name, c) ==
  IF c.out.kind = "raise" THEN c
  ELSE IF ~HasRow(c.cache, name) THEN Result(Raise("KeyError"), c.trace, c.cache)
  ELSE Result(Return(Spectrum(name, c.cache.rows[name], c.out.val)), c.trace, c.cache)

\* get_spectrum(name, refresh_cache=..., **kws)
get_spectrum(group, base_uri, cache, name, refresh_cache, kws, resp, fresh) ==
  get_spectrum_of(name, contents(group, base_uri, cache, name, TRUE, refresh_cache, kws, resp, fresh))

\* parameters(name)
parameters(cache, name) ==
  IF ~HasRow(cache, name) THEN Return(None)
  ELSE IF "Parameters" \notin DOMAIN cache.rows[name] THEN Raise("AttributeError")
  ELSE Return([t |-> "list", items |-> cache.rows[name].Parameters])

\* r.json() of a raw response
response_json(resp) ==
  IF resp.body = "json" THEN Return(resp.value) ELSE Raise("JSONDecodeError")

\* Mutant of apply_status: any body with a status field counts as success.
apply_status_present(cache, trace, json) ==
  IF json.kind = "raise" THEN Result(json, trace, cache)
  ELSE Result(Return(Bool("status" \in json.val.keys)), trace, cache)

\* Lines 310-314, given the parsed body.
apply_status(cache, trace, json) ==
  IF json.kind = "raise" THEN Result(json, trace, cache)
  ELSE IF "status" \notin json.val.keys THEN Result(Raise("KeyError"), trace, cache)
  ELSE Result(Return(Bool(json.val.status = "OK")), trace, cache)

\* Lines 309-314, given what get returned.
apply_of(cache, g) ==
  IF g.out.kind = "raise" THEN Result(g.out, g.trace, cache)
  ELSE IF g.out.val.t = "None" THEN Result(Raise("AttributeError"), g.trace, cache)
  ELSE apply_status(cache, g.trace, response_json(g.out.val.resp))

\* SpecTclApplyClient.apply(spectrum, gate, **kws)
apply(group, base_uri, cache, spectrum, gate, kws, resp) ==
  apply_of(cache, get(group, base_uri, "apply", TRUE, Merge(ApplyKw(spectrum, gate), kws), resp))

\* name setter: None selects the default application name.
NoName == "<None>"
name_setter(s) == IF s = NoName THEN DEFAULT_APP_NAME ELSE s

\* __init__(base_url, port, name, group): the fields of the new client, given
\* the listing that populates the cache.
init_of(b, p, nm, g, uri, l) ==
  [name |-> nm, base_url |-> b, port |-> p, group |-> g, base_uri |-> uri,
   out |-> l.out, trace |-> l.trace]
init(b, p, n, g, resp) ==
  init_of(b, p, name_setter(n), g, update_base_uri(b, p, name_setter(n), g),
          list(g, update_base_uri(b, p, name_setter(n), g), None, TRUE, NoKws, resp))

\* =================================================================== state
VARIABLES
  group,        \* self._group
  name,         \* self._name
  base_url,     \* self._base_url
  port,         \* self._port
  base_uri,     \* self._base_uri
  vlist_cache,  \* self._vlist_cache
  last          \* the caller's view of the call just made: op, args, out, trace

vars == <<group, name, base_url, port, base_uri, vlist_cache, last>>
conn == <<group, name, base_url, port, base_uri>>

Idle == [op |-> "idle"]
Call(op, args, out, trace) == [op |-> op, args |-> args, out |-> out, trace |-> trace]

\* Inputs of the calls.
NameInputs == AppNames \cup {NoName}
Bogus == [k \in {"bogus"} |-> "1"]
FilterKey(g) == IF g = "spectrum" THEN "filter" ELSE "pattern"
ListKws(g) ==
  {NoKws, Bogus, [k \in {"update_cache"} |-> TRUE], [k \in {"update_cache"} |-> FALSE],
   [k \in {FilterKey(g)} |-> "*"]}
ExtraKws == {NoKws, Bogus}
Actions == {"list", "contents", "apply"}
\* The service answers only the requests that are sent: a call that sends
\* none draws no response.
NoResponse == [body |-> "none"]
Requests(trace, action) ==
  {i \in DOMAIN trace : trace[i].ev = "request" /\ trace[i].url.action = action}
ResponsesTo(g, action, params) ==
  IF Requests(get(g, None, action, FALSE, params, NoResponse).trace, action) # {}
  THEN Responses(g, action) ELSE {NoResponse}
FreshTo(g, cache, n, refresh_cache, kws, resp) ==
  IF Requests(contents(g, None, cache, n, TRUE, refresh_cache, kws, resp, NoResponse).trace, "list") # {}
  THEN Responses(g, "list") ELSE {NoResponse}
\* only_gated is a parameter of the apply client's list alone.
OnlyGated(g) == IF g = "apply" THEN BOOLEAN ELSE {TRUE}

\* The client after construction: __init__ populated the cache.
Constructed(c) ==
  /\ c.out.kind = "return"
  /\ group = c.group
  /\ name = c.name
  /\ base_url = c.base_url
  /\ port = c.port
  /\ base_uri = c.base_uri
  /\ vlist_cache = c.out.val
  /\ last = Call("__init__", [only_gated |-> TRUE, kws |-> NoKws], Return(None), c.trace)

\* Every client a successful construction yields, for every constructor
\* argument and every listing the service answers with.
Init ==
  \E g \in Groups, b \in BaseUrls, p \in Ports, n \in NameInputs :
    \E resp \in Responses(g, "list") : Constructed(init(b, p, n, g, resp))

\* A method returns (or raises): the cache it leaves and the caller's view.
Returns(op, args, r) ==
  /\ vlist_cache' = r.cache
  /\ last' = Call(op, args, r.out, r.trace)
  /\ UNCHANGED conn

\* c.name = s
SetName(s) ==
  /\ last = Idle
  /\ name' = name_setter(s)
  /\ last' = Call("set_name", [value |-> s], Return(None), <<>>)
  /\ UNCHANGED <<group, base_url, port, base_uri, vlist_cache>>

\* c.port = i
SetPort(i) ==
  /\ last = Idle
  /\ port' = i
  /\ base_uri' = update_base_uri(base_url, i, name, group)
  /\ last' = Call("set_port", [value |-> i], Return(None), <<>>)
  /\ UNCHANGED <<group, name, base_url, vlist_cache>>

\* c.base_url = s
SetBaseUrl(s) ==
  /\ last = Idle
  /\ base_url' = s
  /\ base_uri' = update_base_uri(s, port, name, group)
  /\ last' = Call("set_base_url", [value |-> s], Return(None), <<>>)
  /\ UNCHANGED <<group, name, port, vlist_cache>>

\* c.get(action, raw, **params)
Get(action, raw, params, resp) ==
  /\ last = Idle
  /\ Returns("get", [action |-> action, raw |-> raw, params |-> params],
             Result(get(group, base_uri, action, raw, params, resp).out,
                    get(group, base_uri, action, raw, params, resp).trace, vlist_cache))

\* c.list(only_gated, **kws)
List(only_gated, kws, resp) ==
  /\ last = Idle
  /\ Returns("list", [only_gated |-> only_gated, kws |-> kws],
             list(group, base_uri, vlist_cache, only_gated, kws, resp))

\* c.contents(name, as_raw, refresh_cache, **kws)
Contents(n, as_raw, refresh_cache, kws, resp, fresh) ==
  /\ last = Idle
  /\ Returns("contents",
             [name |-> n, as_raw |-> as_raw, refresh_cache |-> refresh_cache, kws |-> kws],
             contents(group, base_uri, vlist_cache, n, as_raw, refresh_cache, kws, resp, fresh))

\* c.get_spectrum(name, refresh_cache, **kws)
GetSpectrum(n, refresh_cache, kws, resp, fresh) ==
  /\ last = Idle
  /\ Returns("get_spectrum", [name |-> n, refresh_cache |-> refresh_cache, kws |-> kws],
             get_spectrum(group, base_uri, vlist_cache, n, refresh_cache, kws, resp, fresh))

\* c.parameters(name)
Parameters(n) ==
  /\ last = Idle
  /\ Returns("parameters", [name |-> n], Result(parameters(vlist_cache, n), <<>>, vlist_cache))

\* c.apply(spectrum, gate, **kws): a method of the apply client only.
Apply(spectrum, gate, kws, resp) ==
  /\ last = Idle
  /\ group = "apply"
  /\ Returns("apply", [spectrum |-> spectrum, gate |-> gate, kws |-> kws],
             apply(group, base_uri, vlist_cache, spectrum, gate, kws, resp))

\* The caller takes the result; the client is ready for the next call.
Discard ==
  /\ last # Idle
  /\ last' = Idle
  /\ UNCHANGED <<conn, vlist_cache>>

\* The caller makes its next call once it has taken the previous result:
\* the inputs of a call, none while a result is pending.
Ready(S) == IF last = Idle THEN S ELSE {}

Next ==
  \/ \E s \in Ready(NameInputs) : SetName(s)
  \/ \E i \in Ready(Ports) : SetPort(i)
  \/ \E s \in Ready(BaseUrls) : SetBaseUrl(s)
  \/ \E action \in Ready(Actions), raw \in BOOLEAN, params \in ExtraKws :
       \E resp \in ResponsesTo(group, action, params) : Get(action, raw, params, resp)
  \/ \E only_gated \in Ready(OnlyGated(group)), kws \in ListKws(group) :
       \E resp \in ResponsesTo(group, "list", kws) : List(only_gated, kws, resp)
  \/ \E n \in Ready(Names), as_raw \in BOOLEAN, refresh_cache \in BOOLEAN, kws \in ExtraKws :
       \E resp \in ResponsesTo(group, "contents", Merge(NameKw(n), kws)) :
         \E fresh \in FreshTo(group, vlist_cache, n, refresh_cache, kws, resp) :
           Contents(n, as_raw, refresh_cache, kws, resp, fresh)
  \/ \E n \in Ready(Names), refresh_cache \in BOOLEAN, kws \in ExtraKws :
       \E resp \in ResponsesTo(group, "contents", Merge(NameKw(n), kws)) :
         \E fresh \in FreshTo(group, vlist_cache, n, refresh_cache, kws, resp) :
           GetSpectrum(n, refresh_cache, kws, resp, fresh)
  \/ \E n \in Ready(Names) : Parameters(n)
  \/ \E spectrum \in Ready(Names), gate \in GateNames, kws \in ExtraKws :
       \E resp \in ResponsesTo(group, "apply", Merge(ApplyKw(spectrum, gate), kws)) :
         Apply(spectrum, gate, kws, resp)
  \/ Discard

Spec == Init /\ [][Next]_vars

\* ================================================================== claims
\* The body the service answered the call's request for an action with.
Answer(action) == last.trace[CHOOSE i \in Requests(last.trace, action) : TRUE].resp
Asked(action) == Requests(last.trace, action) # {}
IsTable(o) == o.kind = "return" /\ o.val.t = "frame"
\* The row the cache holds for the name the call was made with.
CachedParams == vlist_cache.rows[last.args.name].Parameters
\* A listing as (name, payload) pairs, the payload being the parameter
\* list, the type code or the gate of the group: of the records the service
\* answered the call's list request with, and of a table.
AnsweredPairs ==
  {CASE group = "spectrum" -> <<r.name, r.parameters>>
     [] group = "gate" -> <<r.name, r.type>>
     [] group = "apply" -> <<r.spectrum, r.gate>> : r \in Answer("list").value.items}
TablePairs(tab) ==
  {CASE group = "spectrum" -> <<n, tab.rows[n].Parameters>>
     [] group = "gate" -> <<n, tab.rows[n].Type>>
     [] group = "apply" -> <<n, tab.rows[n].gate>> : n \in DOMAIN tab.rows}
\* The parameter list the listing just fetched declares for the call's name.
AnsweredParams == (CHOOSE pr \in AnsweredPairs : pr[1] = last.args.name)[2]
SampleKeys == Keys(Range(Answer("contents").value.channels))

\* C1: contents(name, refresh_cache=True) replaces the cache by the fresh
\* listing before it resolves the parameter names: once the refresh has
\* fetched a listing, the cache is that listing, and a renamed table of
\* matching samples carries the parameter names that listing declares.
C1_RefreshBeforeRename ==
  (/\ last.op = "contents"
   /\ last.args.refresh_cache
   /\ Asked("list")
   /\ Answer("list").body = "json"
   /\ Answer("list").value.items # {})
    => /\ TablePairs(vlist_cache) = AnsweredPairs
       /\ (/\ IsTable(last.out)
           /\ ~last.args.as_raw
           /\ \E pr \in AnsweredPairs : pr[1] = last.args.name)
            => /\ (Len(AnsweredParams) = 1 /\ SampleKeys = {"x", "v"})
                    => last.out.val.columns = <<AnsweredParams[1], "count">>
               /\ (Len(AnsweredParams) = 2 /\ SampleKeys = {"x", "y", "v"})
                    => last.out.val.columns = <<AnsweredParams[1], AnsweredParams[2], "count">>

\* C2: for every client variant a step changes the cache only if it is a
\* list call made with update_cache set, and such a call, when it returns,
\* leaves the listing of its response as the cache (every row of it, for the
\* apply variant too); no other call changes the cache.
C2_CacheOnlyOnUpdate ==
  [][/\ (vlist_cache' # vlist_cache) =>
          (last'.op = "list" /\ UpdateCache(last'.args.kws) /\ last'.out.kind = "return")
     /\ (last'.op = "list" /\ UpdateCache(last'.args.kws) /\ last'.out.kind = "return") =>
          (TablePairs(vlist_cache)' = AnsweredPairs')]_vars

\* C2 witness: a list call with update_cache set returned and the listing of
\* its response is the cache.
C2_Witness ==
  /\ last.op = "list"
  /\ UpdateCache(last.args.kws)
  /\ last.out.kind = "return"
  /\ TablePairs(vlist_cache) = AnsweredPairs

\* C3: in every call a request is sent only right after a validation of the
\* same action that returned true, with whitelisted keys only; a get with a
\* key outside the whitelist of (group, action) returns None and sends nothing.
C3_ValidateBeforeRequest ==
  last # Idle =>
    /\ \A i \in DOMAIN last.trace :
         last.trace[i].ev = "request" =>
           /\ i > 1
           /\ last.trace[i - 1] = EvValidate(last.trace[i].url.action, TRUE)
           /\ DOMAIN last.trace[i].params \subseteq
                ACTION_PARAMS[group][last.trace[i].url.action].arg
    /\ (/\ last.op = "get"
        /\ last.args.action \in DOMAIN ACTION_PARAMS[group]
        /\ ~(DOMAIN last.args.params \subseteq ACTION_PARAMS[group][last.args.action].arg))
         => /\ IsNone(last.out)
            /\ \A i \in DOMAIN last.trace : last.trace[i].ev # "request"

\* C3 witness: a get with an unknown key returned None after the validation alone.
C3_Witness ==
  /\ last.op = "get"
  /\ last.args.params = Bogus
  /\ IsNone(last.out)
  /\ last.trace = <<EvValidate(last.args.action, FALSE)>>

\* C4: for every group, list() with an unrecognized parameter returns an
\* empty or null result (it does not raise) and sends no request.
C4_ListUnknownParamReturnsEmpty ==
  (last.op = "list" /\ "bogus" \in DOMAIN last.args.kws)
    => /\ last.out.kind = "return"
       /\ \A i \in DOMAIN last.trace : last.trace[i].ev # "request"

\* C5: after construction and after any assignments to base_url, port and
\* name, every request goes to {base_url}:{port}/{name}/{group}/{action}
\* built from the current values of the properties.
C5_UrlFromCurrentProperties ==
  last # Idle =>
    \A i \in DOMAIN last.trace :
      last.trace[i].ev = "request" =>
        last.trace[i].url = Url(Uri(base_url, port, name, group), last.trace[i].url.action)

\* C6: apply(spectrum, gate) returns true when the status field of the
\* response body is "OK" and false for any other status, it reports success
\* for no other body, and the cache is the same after the call as before.
C6_ApplyStatus ==
  [][last'.op = "apply" =>
       /\ vlist_cache' = vlist_cache
       /\ (last'.out = Return(Bool(TRUE))) <=>
            (/\ Requests(last'.trace, "apply") # {}
             /\ Answer("apply")' = Json(JStatus("OK")))
       /\ (/\ Requests(last'.trace, "apply") # {}
           /\ Answer("apply")'.body = "json"
           /\ "status" \in Answer("apply")'.value.keys
           /\ Answer("apply")'.value.status # "OK")
            => last'.out = Return(Bool(FALSE))]_vars

\* C6 witness: an apply answered with status FAIL returned false.
C6_Witness ==
  /\ last.op = "apply"
  /\ Asked("apply")
  /\ Answer("apply") = Json(JStatus("FAIL"))
  /\ last.out = Return(Bool(FALSE))

\* C7: when the cached row of the spectrum declares a number of parameters
\* other than 1 or 2, non-raw contents(name) fails instead of returning a
\* table whose coordinate columns are left unrenamed.
C7_UnsupportedDimensionFails ==
  (/\ last.op = "contents"
   /\ ~last.args.as_raw
   /\ HasRow(vlist_cache, last.args.name)
   /\ "Parameters" \in DOMAIN vlist_cache.rows[last.args.name]
   /\ Len(CachedParams) \notin {1, 2})
    => ~(IsTable(last.out) /\ Range(last.out.val.columns) \cap {"x", "y", "v"} # {})

\* C8 as stated: for a name absent from the cache, contents(name) and
\* get_spectrum(name) fail (they return no table, no null and no Spectrum),
\* whatever the response and whatever as_raw.
C8_AbsentNameFails ==
  (last.op \in {"contents", "get_spectrum"} /\ ~HasRow(vlist_cache, last.args.name))
    => last.out.kind = "raise"

\* C8 amended: for a name absent from the cache neither call ever returns a
\* table or a Spectrum; get_spectrum always raises; contents raises unless
\* the body of the response is not JSON, when it returns None; and with
\* accepted parameters and JSON bodies the error is the lookup error.
C8_AbsentNameNeverBuilt ==
  (last.op \in {"contents", "get_spectrum"} /\ ~HasRow(vlist_cache, last.args.name))
    => /\ last.out.kind = "return" =>
            /\ last.op = "contents"
            /\ IsNone(last.out)
            /\ Asked("contents")
            /\ Answer("contents").body # "json"
       /\ (/\ Asked("contents")
           /\ Answer("contents").body = "json"
           /\ Asked("list") => Answer("list").body = "json")
            => Raised(last.out, "KeyError")

\* C8 witness: contents for an absent name, answered with channels, raised KeyError.
C8_Witness ==
  /\ last.op = "contents"
  /\ ~HasRow(vlist_cache, last.args.name)
  /\ Asked("contents")
  /\ Answer("contents") = Json(JContents(<<Sample1>>))
  /\ Raised(last.out, "KeyError")

\* C9 as stated: with 1 declared parameter p non-raw contents(name) yields
\* the columns {p, count}, with 2 declared parameters p, q the columns
\* {p, q, count}.
C9_ColumnsByDeclaredParams ==
  (last.op = "contents" /\ ~last.args.as_raw /\ IsTable(last.out))
    => /\ Len(CachedParams) = 1 =>
            Range(last.out.val.columns) = {CachedParams[1], "count"}
       /\ Len(CachedParams) = 2 =>
            Range(last.out.val.columns) = {CachedParams[1], CachedParams[2], "count"}

\* C9 amended: the columns are the keys of the samples with x, (y,) v renamed
\* by the cache row of name: p, count for 1 declared parameter when the
\* samples carry x, v; p, q, count for 2 when they carry x, y, v.
C9_ColumnsOfMatchingSamples ==
  (last.op = "contents" /\ ~last.args.as_raw /\ IsTable(last.out))
    => /\ (Len(CachedParams) = 1 /\ SampleKeys = {"x", "v"})
            => last.out.val.columns = <<CachedParams[1], "count">>
       /\ (Len(CachedParams) = 2 /\ SampleKeys = {"x", "y", "v"})
            => last.out.val.columns = <<CachedParams[1], CachedParams[2], "count">>

\* C9 witness: a two-parameter spectrum with x, y, v samples came back renamed.
C9_Witness ==
  /\ last.op = "contents"
  /\ ~last.args.as_raw
  /\ IsTable(last.out)
  /\ Len(CachedParams) = 2
  /\ Answer("contents") = Json(JContents(<<Sample2>>))
  /\ last.out.val.columns = <<CachedParams[1], CachedParams[2], "count">>

\* C10: a list call of the apply client that returns hands back exactly the
\* rows of the service listing whose gate is not "-TRUE-" under only_gated
\* and every row otherwise; the listing of the construction uses the default,
\* only_gated, so the cache starts with the gated rows.
C10_OnlyGated ==
  /\ (group = "apply" /\ last.op = "list" /\ last.out.kind = "return")
       => TablePairs(last.out.val) =
            IF last.args.only_gated THEN {pr \in AnsweredPairs : pr[2] # "-TRUE-"}
            ELSE AnsweredPairs
  /\ (group = "apply" /\ last.op = "__init__")
       => TablePairs(vlist_cache) = {pr \in AnsweredPairs : pr[2] # "-TRUE-"}

\* C10 witness: an only_gated listing dropped an ungated row and kept a gated one.
C10_Witness ==
  /\ group = "apply"
  /\ last.op = "list"
  /\ last.args.only_gated
  /\ last.out.kind = "return"
  /\ AnsweredPairs = {<<"s1", "-TRUE-">>, <<"s2", "g1">>}
  /\ TablePairs(last.out.val) = {<<"s2", "g1">>}

====
